---- MODULE Spec2Model ----
(***************************************************************************)
(* A model of the knowledge-based Minesweeper agent of src/minesweeper.py: *)
(* class Sentence, class MinesweeperAI, and the two board functions the    *)
(* agent's caller uses (Minesweeper.is_mine, Minesweeper.nearby_mines).    *)
(*                                                                         *)
(* A cell is a pair <<i, j>>.  A Sentence is a record [cells, count].      *)
(* MinesweeperAI.knowledge is a Python list and is a sequence here.        *)
(* MinesweeperAI.safes and .mines are Python lists that the code only      *)
(* appends to and tests membership of; part of their order comes from the  *)
(* iteration order of a Python set, which the source does not determine,   *)
(* so they are bags here (each cell with the number of times it was        *)
(* appended) and a scan of the list is a choice among its elements.        *)
(***************************************************************************)
EXTENDS Integers, Sequences, FiniteSets, Bags, TLC

(***************************************************************************)
(* Bounds of the model.                                                    *)
(***************************************************************************)
\* The board sizes <<height, width>> the agent is constructed with.
BoardSizes == {<<1, 3>>, <<2, 2>>, <<2, 3>>, <<3, 3>>}
\* The largest number of mines on a board.
MaxMines == 3
\* The largest number of state-changing calls made on one agent.
MaxCalls == 3
\* The largest count a caller that need not be truthful passes.
MaxCount == 2
\* The largest number of state-changing calls a caller that need not be
\* truthful makes on one agent.
MaxAgentCalls == 2
\* The largest number of state-changing calls before make_random_move.
MaxRandomCalls == 1
\* The board sizes make_random_move is run on.
RandomBoardSizes == {<<1, 3>>, <<2, 2>>}
\* The number of cells a Sentence used on its own is drawn from.
MaxSentenceCells == 3
\* Longer truthful play on one board size: the board sizes, the largest
\* number of mines and the largest number of calls.
DeepBoardSizes == {<<2, 3>>}
MaxDeepMines == 1
MaxDeepCalls == 4

VARIABLES
    height,      \* MinesweeperAI.height
    width,       \* MinesweeperAI.width
    board,       \* Minesweeper.mines: the cells that hold a mine
    moves_made,  \* MinesweeperAI.moves_made
    safes,       \* MinesweeperAI.safes
    mines,       \* MinesweeperAI.mines
    knowledge,   \* MinesweeperAI.knowledge
    sent0,       \* a Sentence used on its own, as it was constructed
    sent,        \* that Sentence now
    honest,      \* whether every mark made on sent so far was true of board
    pc,          \* "idle", or "random" inside make_random_move's loop
    loop_i,      \* make_random_move's loop variable i
    lastOp,      \* the call made last: [op, cell, count]
    ret,         \* what that call returned: {} for None, {cell} for a cell
    calls,       \* the number of state-changing calls made so far
    phase,       \* how many calls of the two-reveal scenario were made
    start        \* the agent as it was when the scenario started

agentVars == <<moves_made, safes, mines, knowledge>>
sentenceVars == <<sent0, sent, honest>>
scenarioVars == <<phase, start>>
vars == <<height, width, board, moves_made, safes, mines, knowledge,
          sent0, sent, honest, pc, loop_i, lastOp, ret, calls, phase, start>>

(***************************************************************************)
(* Helpers on sequences and sets.                                          *)
(***************************************************************************)
\* x in lst
InList(lst, x) == \E k \in DOMAIN lst : lst[k] = x

\* list.remove(x): the first element equal to x is removed.
RECURSIVE ListRemove(_, _)
ListRemove(lst, x) ==
    IF lst = <<>> THEN <<>>
    ELSE IF Head(lst) = x THEN Tail(lst)
    ELSE <<Head(lst)>> \o ListRemove(Tail(lst), x)

\* x in bag-modelled list
InBag(b, x) == BagIn(x, b)

\* list.append(x) on a bag-modelled list
BagAppend(b, x) == b (+) SetToBag({x})

(***************************************************************************)
(* class Sentence                                                          *)
(***************************************************************************)
Sentence(cells, count) == [cells |-> cells, count |-> count]

\* known_mines with the test made on count alone.
known_mines_TestsCount(s) == IF s.count > 0 THEN s.cells ELSE {}

known_mines(s) == IF Cardinality(s.cells) = s.count THEN s.cells ELSE {}

\* known_safes with the test made on the number of cells.
known_safes_TestsCells(s) == IF Cardinality(s.cells) = 0 THEN s.cells ELSE {}

known_safes(s) == IF s.count = 0 THEN s.cells ELSE {}

\* mark_mine that removes the cell and leaves count as it is.
Sentence_mark_mine_KeepsCount(s, cell) ==
    IF cell \in s.cells
    THEN [cells |-> s.cells \ {cell}, count |-> s.count]
    ELSE s

\* mark_mine that decrements count whether or not the cell is in cells.
Sentence_mark_mine_Unguarded(s, cell) ==
    [cells |-> s.cells \ {cell}, count |-> s.count - 1]

Sentence_mark_mine(s, cell) ==
    IF cell \in s.cells
    THEN [cells |-> s.cells \ {cell}, count |-> s.count - 1]
    ELSE s

\* mark_safe that leaves the sentence as it is.
Sentence_mark_safe_Keeps(s, cell) == s

Sentence_mark_safe(s, cell) ==
    IF cell \in s.cells
    THEN [cells |-> s.cells \ {cell}, count |-> s.count]
    ELSE s

(***************************************************************************)
(* class MinesweeperAI.  The agent's fields are passed around as a record  *)
(* st = [moves_made, safes, mines, knowledge].                             *)
(***************************************************************************)
NewAgent == [moves_made |-> {}, safes |-> EmptyBag, mines |-> EmptyBag,
             knowledge |-> <<>>]

mark_mine(st, cell) ==
    [st EXCEPT !.mines = BagAppend(@, cell),
               !.knowledge = [k \in DOMAIN @ |-> Sentence_mark_mine(@[k], cell)]]

mark_safe(st, cell) ==
    [st EXCEPT !.safes = BagAppend(@, cell),
               !.knowledge = [k \in DOMAIN @ |-> Sentence_mark_safe(@[k], cell)]]

\* The in-bounds cells around cell, cell itself left out.
Neighbours(h, w, cell) ==
    {<<i, j>> : i \in (cell[1] - 1)..(cell[1] + 1),
                j \in (cell[2] - 1)..(cell[2] + 1)}
    \cap {c \in (0..(h - 1)) \X (0..(w - 1)) : c # cell}

\* add_knowledge, steps 1 to 3: the move is recorded, the cell marked safe
\* and the new sentence appended.
NewSentence(st, h, w, cell, count) ==
    LET cells == {c \in Neighbours(h, w, cell) : ~InBag(st.safes, c)}
        n_known_mines ==
            Cardinality({c \in Neighbours(h, w, cell) : InBag(st.mines, c)})
    IN  Sentence(cells, count - n_known_mines)

\* add_knowledge that records the move and does not mark the cell safe.
RecordMove_NoMarkSafe(st, h, w, cell, count) ==
    LET st1 == [st EXCEPT !.moves_made = @ \cup {cell}]
    IN  [st1 EXCEPT !.knowledge = Append(@, NewSentence(st1, h, w, cell, count))]

RecordMove(st, h, w, cell, count) ==
    LET st1 == mark_safe([st EXCEPT !.moves_made = @ \cup {cell}], cell)
    IN  [st1 EXCEPT !.knowledge = Append(@, NewSentence(st1, h, w, cell, count))]

\* for cell in S: self.mark_safe(cell)
RECURSIVE MarkAllSafe(_, _)
MarkAllSafe(st, S) ==
    IF S = {} THEN st
    ELSE LET c == CHOOSE x \in S : TRUE
         IN  MarkAllSafe(mark_safe(st, c), S \ {c})

\* for cell in S: self.mark_mine(cell)
RECURSIVE MarkAllMines(_, _)
MarkAllMines(st, S) ==
    IF S = {} THEN st
    ELSE LET c == CHOOSE x \in S : TRUE
         IN  MarkAllMines(mark_mine(st, c), S \ {c})

\* for sentence in lst: self.knowledge.remove(sentence)
RECURSIVE RemoveAll(_, _)
RemoveAll(kn, lst) ==
    IF lst = <<>> THEN kn
    ELSE RemoveAll(ListRemove(kn, Head(lst)), Tail(lst))

\* add_knowledge, step 4: one scan of the sentences, then the marks, then
\* the removal of the sentences that were empty when scanned.
MarkKnown(st) ==
    LET kn == st.knowledge
        safe_cells == UNION {known_safes(kn[k]) : k \in DOMAIN kn}
        mine_cells == UNION {known_mines(kn[k]) : k \in DOMAIN kn}
        removed_sentences == SelectSeq(kn, LAMBDA s : s.cells = {})
        st1 == MarkAllMines(MarkAllSafe(st, safe_cells), mine_cells)
    IN  [st1 EXCEPT !.knowledge = RemoveAll(@, removed_sentences)]

\* The pairs (i, j), i < j, of the double loop of step 5, in loop order.
RECURSIVE PairsFrom(_, _, _)
PairsFrom(i, j, n) ==
    IF i >= n THEN <<>>
    ELSE IF j > n THEN PairsFrom(i + 1, i + 2, n)
    ELSE <<<<i, j>>>> \o PairsFrom(i, j + 1, n)

Pairs(n) == PairsFrom(1, 2, n)

\* What one pair of the double loop appends to removed_sentences_2.
PairRemoved(a, b) == IF a = b THEN <<b>> ELSE <<>>

\* The subset tests replaced by tests that the two sentences share a cell.
PairAdded_TestsOverlap(a, b) ==
    IF a = b THEN <<>>
    ELSE IF (a.cells \cap b.cells) # {}
         THEN <<Sentence(a.cells \ b.cells, a.count - b.count)>>
    ELSE <<>>

\* What one pair of the double loop appends to added_sentences.
PairAdded(a, b) ==
    IF a = b THEN <<>>
    ELSE IF (a.cells \cap b.cells) = b.cells
         THEN <<Sentence(a.cells \ b.cells, a.count - b.count)>>
    ELSE IF (b.cells \cap a.cells) = a.cells
         THEN <<Sentence(b.cells \ a.cells, b.count - a.count)>>
    ELSE <<>>

RECURSIVE RemovedSentences2(_, _)
RemovedSentences2(kn, ps) ==
    IF ps = <<>> THEN <<>>
    ELSE PairRemoved(kn[Head(ps)[1]], kn[Head(ps)[2]])
         \o RemovedSentences2(kn, Tail(ps))

RECURSIVE AddedSentences(_, _)
AddedSentences(kn, ps) ==
    IF ps = <<>> THEN <<>>
    ELSE PairAdded(kn[Head(ps)[1]], kn[Head(ps)[2]])
         \o AddedSentences(kn, Tail(ps))

\* for sentence in lst: if sentence in knowledge: knowledge.remove(sentence)
RECURSIVE RemoveDuplicates(_, _)
RemoveDuplicates(kn, lst) ==
    IF lst = <<>> THEN kn
    ELSE RemoveDuplicates(IF InList(kn, Head(lst))
                          THEN ListRemove(kn, Head(lst)) ELSE kn,
                          Tail(lst))

\* for sentence in lst: if sentence not in knowledge: knowledge.append(sentence)
RECURSIVE AppendNew(_, _)
AppendNew(kn, lst) ==
    IF lst = <<>> THEN kn
    ELSE AppendNew(IF InList(kn, Head(lst)) THEN kn ELSE Append(kn, Head(lst)),
                   Tail(lst))

\* add_knowledge, step 5: duplicates and subset inferences.
SubsetInference(st) ==
    LET kn == st.knowledge
        ps == Pairs(Len(kn))
    IN  [st EXCEPT !.knowledge =
            AppendNew(RemoveDuplicates(kn, RemovedSentences2(kn, ps)),
                      AddedSentences(kn, ps))]

\* What add_knowledge runs after it has appended the new sentence.
ClosurePass(st) == SubsetInference(MarkKnown(st))

add_knowledge(st, h, w, cell, count) ==
    ClosurePass(RecordMove(st, h, w, cell, count))

(***************************************************************************)
(* class Minesweeper: the ground truth the caller reads.                   *)
(***************************************************************************)
Cells(h, w) == (0..(h - 1)) \X (0..(w - 1))

is_mine(b, cell) == cell \in b

nearby_mines(b, h, w, cell) == Cardinality(Neighbours(h, w, cell) \cap b)

(***************************************************************************)
(* The state machine.                                                      *)
(***************************************************************************)
AgentState == [moves_made |-> moves_made, safes |-> safes, mines |-> mines,
               knowledge |-> knowledge]

SetAgent(st) ==
    /\ moves_made' = st.moves_made
    /\ safes' = st.safes
    /\ mines' = st.mines
    /\ knowledge' = st.knowledge

Op(name, cell, count) == [op |-> name, cell |-> cell, count |-> count]

\* MinesweeperAI(height, width), on which nothing was called yet.
InitAgent ==
    /\ moves_made = {}
    /\ safes = EmptyBag
    /\ mines = EmptyBag
    /\ knowledge = <<>>
    /\ pc = "idle"
    /\ loop_i = 0
    /\ lastOp = Op("init", <<0, 0>>, 0)
    /\ ret = {}
    /\ calls = 0
    /\ phase = 0
    /\ start = NewAgent

NoSentence ==
    /\ sent0 = Sentence({}, 0)
    /\ sent = Sentence({}, 0)
    /\ honest = TRUE

\* add_knowledge(cell, count) returns.
AddKnowledge(cell, count) ==
    /\ pc = "idle"
    /\ SetAgent(add_knowledge(AgentState, height, width, cell, count))
    /\ lastOp' = Op("add_knowledge", cell, count)
    /\ ret' = {}
    /\ calls' = calls + 1
    /\ UNCHANGED <<height, width, board, sentenceVars, pc, loop_i>>

\* The caller reveals a cell that holds no mine and tells the agent the
\* number of mines around it.
AddKnowledgeTruthful ==
    /\ calls < MaxCalls
    /\ \E cell \in Cells(height, width) :
          /\ ~is_mine(board, cell)
          /\ AddKnowledge(cell, nearby_mines(board, height, width, cell))
    /\ UNCHANGED scenarioVars

\* A caller that need not be truthful passes any cell of the board and any
\* count from 0 to MaxCount.
AddKnowledgeAny(limit) ==
    /\ calls < limit
    /\ \E cell \in Cells(height, width), count \in 0..MaxCount :
          AddKnowledge(cell, count)
    /\ UNCHANGED scenarioVars

\* The degenerate inputs: a cell next to the board but outside it, or a
\* negative count.
DegenerateInputs(h, w) ==
    {in \in ((-1)..h) \X ((-1)..w) \X ((-1)..0) :
        <<in[1], in[2]>> \notin Cells(h, w) \/ in[3] < 0}

AddKnowledgeDegenerate(limit) ==
    /\ calls < limit
    /\ \E in \in DegenerateInputs(height, width) :
          AddKnowledge(<<in[1], in[2]>>, in[3])
    /\ UNCHANGED scenarioVars

\* mark_safe(cell) called on the agent from outside.
MarkSafe(limit) ==
    /\ pc = "idle"
    /\ calls < limit
    /\ \E cell \in Cells(height, width) :
          /\ SetAgent(mark_safe(AgentState, cell))
          /\ lastOp' = Op("mark_safe", cell, 0)
    /\ ret' = {}
    /\ calls' = calls + 1
    /\ UNCHANGED <<height, width, board, sentenceVars, pc, loop_i, scenarioVars>>

\* mark_mine(cell) called on the agent from outside.
MarkMine(limit) ==
    /\ pc = "idle"
    /\ calls < limit
    /\ \E cell \in Cells(height, width) :
          /\ SetAgent(mark_mine(AgentState, cell))
          /\ lastOp' = Op("mark_mine", cell, 0)
    /\ ret' = {}
    /\ calls' = calls + 1
    /\ UNCHANGED <<height, width, board, sentenceVars, pc, loop_i, scenarioVars>>

\* make_safe_move: a cell of safes that is neither played nor a known
\* mine, None when there is none.
\* make_safe_move without its test on mines.
SafeMoves_IgnoringMines(st) ==
    {c \in BagToSet(st.safes) : c \notin st.moves_made}

SafeMoves(st) ==
    {c \in BagToSet(st.safes) : c \notin st.moves_made /\ ~InBag(st.mines, c)}

make_safe_move(st) ==
    IF SafeMoves(st) = {} THEN {{}} ELSE {{c} : c \in SafeMoves(st)}

MakeSafeMove ==
    /\ pc = "idle"
    /\ ret' \in make_safe_move(AgentState)
    /\ lastOp' = Op("make_safe_move", <<0, 0>>, 0)
    /\ UNCHANGED <<height, width, board, agentVars, sentenceVars, pc, loop_i,
                   calls, scenarioVars>>

(***************************************************************************)
(* Truthful play against a fixed board.                                    *)
(***************************************************************************)
Boards(h, w) == {b \in SUBSET Cells(h, w) : Cardinality(b) <= MaxMines}

Init ==
    /\ \E hw \in BoardSizes : height = hw[1] /\ width = hw[2]
    /\ board \in Boards(height, width)
    /\ InitAgent
    /\ NoSentence

Next == AddKnowledgeTruthful \/ MakeSafeMove

Spec == Init /\ [][Next]_vars

(***************************************************************************)
(* Any caller of the agent's methods, with well-formed inputs.  A call of  *)
(* mark_safe or mark_mine may be made once more with the same cell.        *)
(***************************************************************************)
InitAgentOnly ==
    /\ \E hw \in BoardSizes : height = hw[1] /\ width = hw[2]
    /\ board = {}
    /\ InitAgent
    /\ NoSentence

MarkSafeAgain ==
    /\ pc = "idle"
    /\ lastOp.op = "mark_safe"
    /\ SetAgent(mark_safe(AgentState, lastOp.cell))
    /\ lastOp' = Op("mark_safe_again", lastOp.cell, 0)
    /\ UNCHANGED <<height, width, board, sentenceVars, pc, loop_i, ret, calls,
                   scenarioVars>>

MarkMineAgain ==
    /\ pc = "idle"
    /\ lastOp.op = "mark_mine"
    /\ SetAgent(mark_mine(AgentState, lastOp.cell))
    /\ lastOp' = Op("mark_mine_again", lastOp.cell, 0)
    /\ UNCHANGED <<height, width, board, sentenceVars, pc, loop_i, ret, calls,
                   scenarioVars>>

NextAgent ==
    \/ AddKnowledgeAny(MaxAgentCalls)
    \/ MarkSafe(MaxAgentCalls)
    \/ MarkMine(MaxAgentCalls)
    \/ MarkSafeAgain
    \/ MarkMineAgain
    \/ MakeSafeMove

SpecAgent == InitAgentOnly /\ [][NextAgent]_vars

(***************************************************************************)
(* Any caller, the degenerate inputs of add_knowledge included.            *)
(***************************************************************************)
NextDegenerate ==
    \/ AddKnowledgeAny(MaxAgentCalls)
    \/ AddKnowledgeDegenerate(MaxAgentCalls)
    \/ MarkSafe(MaxAgentCalls)
    \/ MarkMine(MaxAgentCalls)

SpecDegenerate == InitAgentOnly /\ [][NextDegenerate]_vars

(***************************************************************************)
(* The two-reveal scenario: from an agent in which the neighbours of       *)
(* (0,0) that are not in safes are (0,1) and (1,0), add_knowledge((0,0),1) *)
(* and then add_knowledge((0,1),0).                                        *)
(***************************************************************************)
NotSafeNeighbours(st, h, w, cell) ==
    {c \in Neighbours(h, w, cell) : ~InBag(st.safes, c)}

ScenarioFirst ==
    /\ phase = 0
    /\ NotSafeNeighbours(AgentState, height, width, <<0, 0>>)
           = {<<0, 1>>, <<1, 0>>}
    /\ AddKnowledge(<<0, 0>>, 1)
    /\ phase' = 1
    /\ start' = AgentState

ScenarioSecond ==
    /\ phase = 1
    /\ AddKnowledge(<<0, 1>>, 0)
    /\ phase' = 2
    /\ UNCHANGED start

ScenarioSetup ==
    /\ phase = 0
    /\ \/ AddKnowledgeAny(MaxAgentCalls)
       \/ MarkSafe(MaxAgentCalls)
       \/ MarkMine(MaxAgentCalls)

NextScenario == ScenarioSetup \/ ScenarioFirst \/ ScenarioSecond

SpecScenario == InitAgentOnly /\ [][NextScenario]_vars

(***************************************************************************)
(* make_random_move, one step for each turn of its loop.  loop_i is the    *)
(* number of cells sampled and rejected so far.                            *)
(***************************************************************************)
RetryBudget == 500

InitRandom ==
    /\ \E hw \in RandomBoardSizes : height = hw[1] /\ width = hw[2]
    /\ board = {}
    /\ InitAgent
    /\ NoSentence

\* What one sample of the loop makes of the call: the move is returned, or
\* the loop goes on.
\* make_random_move without its test on moves_made.
Acceptable_IgnoringMoves(st, move) == ~InBag(st.mines, move)

Acceptable(st, move) == ~InBag(st.mines, move) /\ move \notin st.moves_made

RandomRange(h, w) == (0..(h - 1)) \X (0..(w - 1))

RandomStart ==
    /\ pc = "idle"
    /\ pc' = "random"
    /\ loop_i' = 0
    /\ lastOp' = Op("make_random_move", <<0, 0>>, 0)
    /\ ret' = {}
    /\ UNCHANGED <<height, width, board, agentVars, sentenceVars, calls,
                   scenarioVars>>

RandomSample ==
    /\ pc = "random"
    /\ loop_i < RetryBudget
    /\ \E move \in RandomRange(height, width) :
          IF Acceptable(AgentState, move)
          THEN /\ ret' = {move}
               /\ pc' = "idle"
               /\ UNCHANGED loop_i
          ELSE /\ loop_i' = loop_i + 1
               /\ UNCHANGED <<ret, pc>>
    /\ UNCHANGED <<height, width, board, agentVars, sentenceVars, lastOp,
                   calls, scenarioVars>>

RandomExhausted ==
    /\ pc = "random"
    /\ loop_i = RetryBudget
    /\ ret' = {}
    /\ pc' = "idle"
    /\ UNCHANGED <<height, width, board, agentVars, sentenceVars, lastOp,
                   loop_i, calls, scenarioVars>>

NextRandom ==
    \/ AddKnowledgeAny(MaxRandomCalls)
    \/ MarkSafe(MaxRandomCalls)
    \/ MarkMine(MaxRandomCalls)
    \/ RandomStart
    \/ RandomSample
    \/ RandomExhausted

SpecRandom == InitRandom /\ [][NextRandom]_vars

(***************************************************************************)
(* Longer truthful play, on the boards of DeepBoardSizes.                  *)
(***************************************************************************)
InitDeep ==
    /\ \E hw \in DeepBoardSizes : height = hw[1] /\ width = hw[2]
    /\ board \in {b \in SUBSET Cells(height, width) :
                     Cardinality(b) <= MaxDeepMines}
    /\ InitAgent
    /\ NoSentence

AddKnowledgeTruthfulDeep ==
    /\ calls < MaxDeepCalls
    /\ \E cell \in Cells(height, width) :
          /\ ~is_mine(board, cell)
          /\ AddKnowledge(cell, nearby_mines(board, height, width, cell))
    /\ UNCHANGED scenarioVars

NextDeep == AddKnowledgeTruthfulDeep \/ MakeSafeMove

SpecDeep == InitDeep /\ [][NextDeep]_vars

(***************************************************************************)
(* A Sentence used on its own: any sequence of mark_mine and mark_safe on  *)
(* a sentence over the cells of one row.  board is the assignment of mines *)
(* the marks are compared with.                                            *)
(***************************************************************************)
SentenceUniverse == Cells(1, MaxSentenceCells)

InitSentence ==
    /\ height = 1
    /\ width = MaxSentenceCells
    /\ board \in SUBSET SentenceUniverse
    /\ InitAgent
    /\ \E cs \in SUBSET SentenceUniverse :
          \E n \in 0..Cardinality(cs) :
              /\ sent0 = Sentence(cs, n)
              /\ sent = Sentence(cs, n)
              /\ honest = (Cardinality(cs \cap board) = n)

SentenceMarkMine ==
    /\ \E cell \in SentenceUniverse :
          /\ sent' = Sentence_mark_mine(sent, cell)
          /\ honest' = (honest /\ is_mine(board, cell))
          /\ lastOp' = Op("Sentence.mark_mine", cell, 0)
    /\ UNCHANGED <<height, width, board, agentVars, sent0, pc, loop_i, ret,
                   calls, scenarioVars>>

SentenceMarkSafe ==
    /\ \E cell \in SentenceUniverse :
          /\ sent' = Sentence_mark_safe(sent, cell)
          /\ honest' = (honest /\ ~is_mine(board, cell))
          /\ lastOp' = Op("Sentence.mark_safe", cell, 0)
    /\ UNCHANGED <<height, width, board, agentVars, sent0, pc, loop_i, ret,
                   calls, scenarioVars>>

NextSentence == SentenceMarkMine \/ SentenceMarkSafe

SpecSentence == InitSentence /\ [][NextSentence]_vars

(***************************************************************************)
(* The claims.                                                             *)
(***************************************************************************)
SafeSet == BagToSet(safes)
MineSet == BagToSet(mines)
Board == Cells(height, width)
LastWas(name) == lastOp.op = name

\* C1: under truthful play no cell is in both safes and mines.
C1_SafesMinesDisjoint == SafeSet \cap MineSet = {}

\* C2: when add_knowledge has returned, running the closure pass once more
\* changes none of knowledge, safes (as a set) and mines (as a set).
C2_ClosureFixedPoint ==
    LastWas("add_knowledge") =>
        LET again == ClosurePass(AgentState)
        IN  /\ again.knowledge = knowledge
            /\ BagToSet(again.safes) = SafeSet
            /\ BagToSet(again.mines) = MineSet

\* C3: make_safe_move returns a cell that is in safes, not in moves_made and
\* not in mines, or None; None exactly when safes has no cell outside
\* moves_made and mines.
C3_SafeMoveReturn ==
    LastWas("make_safe_move") =>
        /\ Cardinality(ret) <= 1
        /\ \A c \in ret : c \in SafeSet /\ c \notin moves_made /\ c \notin MineSet
        /\ (ret = {}) <=> (SafeSet \subseteq (moves_made \cup MineSet))

\* C3's case: a cell is returned while another cell of safes that was not
\* played is a known mine.
C3_Witness ==
    /\ LastWas("make_safe_move")
    /\ ret # {}
    /\ (SafeSet \cap MineSet) \ moves_made # {}

\* C4: add_knowledge(cell, 0), called when no neighbour of cell is in mines,
\* leaves every in-bounds neighbour of cell in safes.
C4_ZeroRevealMarksNeighbours ==
    [][ ( /\ lastOp'.op = "add_knowledge"
          /\ calls' = calls + 1
          /\ lastOp'.count = 0
          /\ Neighbours(height, width, lastOp'.cell) \cap MineSet = {} )
        => Neighbours(height, width, lastOp'.cell) \subseteq BagToSet(safes') ]_vars

\* C4's case: on a 3x3 board the second call is add_knowledge((1,1), 0), and
\* the eight neighbours are in safes and none is in mines.
C4_Witness ==
    /\ height = 3 /\ width = 3
    /\ lastOp = Op("add_knowledge", <<1, 1>>, 0)
    /\ calls = 2
    /\ Cardinality(Neighbours(height, width, <<1, 1>>)) = 8
    /\ Neighbours(height, width, <<1, 1>>) \subseteq SafeSet
    /\ Neighbours(height, width, <<1, 1>>) \cap MineSet = {}

\* C5 as stated: after the two reveals of the scenario, started from any
\* agent in which the neighbours of (0,0) not in safes are (0,1) and (1,0),
\* the cell (1,0) is in mines.
C5_ScenarioMine_AsStated == phase = 2 => <<1, 0>> \in MineSet

\* (0,1) and (1,0) are unknown to the agent st: in neither safes nor mines
\* and in no sentence; and no neighbour of (0,0) is in mines.
C5_Unknown(st) ==
    /\ \A c \in {<<0, 1>>, <<1, 0>>} :
          /\ ~InBag(st.safes, c)
          /\ ~InBag(st.mines, c)
          /\ \A k \in DOMAIN st.knowledge : c \notin st.knowledge[k].cells
    /\ \A c \in Neighbours(height, width, <<0, 0>>) : ~InBag(st.mines, c)

\* C5, amended: the same, started from an agent to which (0,1) and (1,0)
\* are unknown and in which no neighbour of (0,0) is in mines.
C5_ScenarioMine == (phase = 2 /\ C5_Unknown(start)) => <<1, 0>> \in MineSet

\* C5's case: the scenario was run from such an agent, which had a sentence.
C5_Witness ==
    /\ phase = 2
    /\ C5_Unknown(start)
    /\ start.knowledge # <<>>
    /\ <<1, 0>> \in MineSet

\* C6 as stated: after any sequence of mark_mine and mark_safe on a Sentence
\* that started with 0 <= count <= |cells|, 0 <= count <= |cells|.
C6_CountInRange_AsStated ==
    0 <= sent.count /\ sent.count <= Cardinality(sent.cells)

\* C6, amended: the same for the sequences of marks that are true of one
\* assignment of mines of which the sentence was true when constructed
\* (mark_mine only on its mines, mark_safe only on its other cells).
C6_CountInRange ==
    honest => (0 <= sent.count /\ sent.count <= Cardinality(sent.cells))

\* C6's case: marks true of the assignment have removed a mine and a safe
\* cell from the sentence.
C6_Witness ==
    /\ honest
    /\ sent.count < sent0.count
    /\ Cardinality(sent.cells) + 2 <= Cardinality(sent0.cells)
    /\ (sent0.cells \ sent.cells) \ board # {}

\* C7: moves_made is a subset of safes, and no call removes a cell from
\* moves_made or from safes.
C7_MovesMadeSafe ==
    /\ [](moves_made \subseteq SafeSet)
    /\ [][ /\ moves_made \subseteq moves_made'
           /\ \A c \in SafeSet : CopiesIn(c, safes) <= CopiesIn(c, safes') ]_vars

\* C7's case: a cell was passed to add_knowledge, and later calls of
\* mark_mine and add_knowledge were made.
C7_Witness ==
    /\ Cardinality(moves_made) = 2
    /\ moves_made \cap MineSet # {}
    /\ moves_made \subseteq SafeSet

\* C8: make_random_move returns a cell of the board that is in neither
\* mines nor moves_made, or None; None only after RetryBudget samples were
\* rejected; and it leaves the agent as it was.
C8_RandomMoveReturn ==
    /\ []( (LastWas("make_random_move") /\ pc = "idle") =>
             /\ Cardinality(ret) <= 1
             /\ \A c \in ret :
                   c \in Board /\ c \notin MineSet /\ c \notin moves_made
             /\ (ret = {} => loop_i = RetryBudget) )
    /\ []( pc = "random" =>
             \/ loop_i = 0
             \/ \E c \in Board : c \in MineSet \/ c \in moves_made )
    /\ [][ (pc = "random" \/ pc' = "random") => UNCHANGED agentVars ]_vars

\* C8's case: None is returned although a cell of the board is in neither
\* mines nor moves_made.
C8_Witness ==
    /\ LastWas("make_random_move")
    /\ pc = "idle"
    /\ ret = {}
    /\ loop_i = RetryBudget
    /\ \E c \in Board : c \notin MineSet /\ c \notin moves_made

\* C9: a second mark_safe(c), or mark_mine(c), right after the first leaves
\* every sentence of knowledge (cells and count), moves_made, and safes and
\* mines as sets, as the first left them.
C9_MarkIdempotent ==
    [][ lastOp'.op \in {"mark_safe_again", "mark_mine_again"} =>
          /\ knowledge' = knowledge
          /\ moves_made' = moves_made
          /\ BagToSet(safes') = SafeSet
          /\ BagToSet(mines') = MineSet ]_vars

\* C9's case: mark_mine(c) was called twice on an agent one of whose
\* sentences held c before the first call.
C9_Witness ==
    /\ LastWas("mark_mine_again")
    /\ CopiesIn(lastOp.cell, mines) = 2
    /\ lastOp.cell \notin SafeSet
    /\ \E k \in DOMAIN knowledge, m \in moves_made :
          /\ lastOp.cell \in Neighbours(height, width, m)
          /\ knowledge[k].cells # {}
          /\ knowledge[k].cells \subseteq Neighbours(height, width, m)
          /\ lastOp.cell \notin knowledge[k].cells

\* C10: add_knowledge with a cell outside the board or a negative count
\* leaves moves_made, safes, mines and knowledge as they were.
C10_DegenerateRejected ==
    [][ ( /\ lastOp'.op = "add_knowledge"
          /\ calls' = calls + 1
          /\ (lastOp'.cell \notin Board \/ lastOp'.count < 0) )
        => UNCHANGED agentVars ]_vars

(***************************************************************************)
(* The claims about one call of add_knowledge read the agent at two places *)
(* inside the call: when the new sentence has just been appended, and when *)
(* step 5 starts.  Both are computed from the state the call started in.   *)
(***************************************************************************)
\* A step is a call of add_knowledge.
IsAddKnowledge == lastOp'.op = "add_knowledge" /\ calls' = calls + 1

\* The agent when the call of this step has appended its new sentence.
AtAppend == RecordMove(AgentState, height, width, lastOp'.cell, lastOp'.count)

\* knowledge when step 5 of the call of this step starts.
AtStep5 == MarkKnown(AtAppend).knowledge

\* The number of sentences of kn equal to s.
Copies(kn, s) == Cardinality({k \in DOMAIN kn : kn[k] = s})

\* The number of mines of the board among the cells of s.
TrueCount(s) == Cardinality(s.cells \cap board)

\* C11: the sentence add_knowledge appends has as cells the in-bounds
\* neighbours that are in neither safes nor mines, and as count the given
\* count minus the number of neighbours in mines; no cell of it is in mines.
C11_NewSentence ==
    [][ IsAddKnowledge =>
          LET nb == Neighbours(height, width, lastOp'.cell)
              new == AtAppend.knowledge[Len(AtAppend.knowledge)]
              known == {c \in nb : InBag(AtAppend.mines, c)}
          IN  /\ new.cells = {c \in nb : ~InBag(AtAppend.safes, c)} \ known
              /\ new.count = lastOp'.count - Cardinality(known)
              /\ new.cells \cap known = {} ]_vars

\* C12: under truthful play no cell of safes is a mine of the board.
C12_SafesAreSafe == SafeSet \cap board = {}

\* C13: under truthful play every cell of mines is a mine of the board.
C13_MinesAreMines == MineSet \subseteq board

\* C13's case: two mines are known, in a state in which a mine of the board
\* has also got into safes.
C13_Witness ==
    /\ Cardinality(MineSet) >= 2
    /\ SafeSet \cap board # {}

\* C14: under truthful play the cell make_safe_move returns is no mine of
\* the board.
C14_SafeMoveNotMine == LastWas("make_safe_move") => ret \cap board = {}

\* C14's case: a cell is returned while safes holds a mine of the board.
C14_Witness ==
    /\ LastWas("make_safe_move")
    /\ ret # {}
    /\ SafeSet \cap board # {}

\* C15: under truthful play, after every add_knowledge the count of each
\* sentence of knowledge is the number of mines among its cells.
C15_SentencesTrue ==
    \A k \in DOMAIN knowledge : TrueCount(knowledge[k]) = knowledge[k].count

\* C16: when add_knowledge has returned, the known safes of every sentence
\* are in safes and the known mines of every sentence are in mines.
C16_Cascade ==
    LastWas("add_knowledge") =>
        \A k \in DOMAIN knowledge :
            /\ known_safes(knowledge[k]) \subseteq SafeSet
            /\ known_mines(knowledge[k]) \subseteq MineSet

\* C17: when add_knowledge has returned, no sentence of knowledge has an
\* empty set of cells.
C17_NoEmptySentence ==
    LastWas("add_knowledge") =>
        \A k \in DOMAIN knowledge : knowledge[k].cells # {}

\* C18: a sentence with cells that is in knowledge, once or more, when step
\* 5 starts is in knowledge exactly once when add_knowledge returns; and a
\* sentence that step 5 appends is in knowledge once.
C18_OneCopy ==
    [][ IsAddKnowledge =>
          /\ \A k \in DOMAIN AtStep5 :
                AtStep5[k].cells # {} => Copies(knowledge', AtStep5[k]) = 1
          /\ \A k \in DOMAIN knowledge' :
                ~InList(AtStep5, knowledge'[k])
                    => Copies(knowledge', knowledge'[k]) = 1 ]_vars

\* C19: for sentences A, B of knowledge when step 5 starts with the cells of
\* B a proper subset of those of A, (A.cells - B.cells, A.count - B.count)
\* is in knowledge when add_knowledge returns; and two sentences with the
\* same cells derive nothing: a sentence with no cells that is in knowledge
\* on return was there when step 5 started.
C19_SubsetResolution ==
    [][ IsAddKnowledge =>
          /\ \A a \in DOMAIN AtStep5, b \in DOMAIN AtStep5 :
                ( /\ AtStep5[b].cells \subseteq AtStep5[a].cells
                  /\ AtStep5[b].cells # AtStep5[a].cells )
                => InList(knowledge',
                          Sentence(AtStep5[a].cells \ AtStep5[b].cells,
                                   AtStep5[a].count - AtStep5[b].count))
          /\ \A k \in DOMAIN knowledge' :
                knowledge'[k].cells = {} => InList(AtStep5, knowledge'[k]) ]_vars

\* C20: under truthful play, after every add_knowledge each sentence of
\* knowledge has 0 <= count <= |cells|.
C20_CountInRange ==
    \A k \in DOMAIN knowledge :
        /\ 0 <= knowledge[k].count
        /\ knowledge[k].count <= Cardinality(knowledge[k].cells)

\* C20's case: knowledge holds a sentence made by a call, one changed by a
\* mark_mine of a later call and one derived in step 5: three sentences
\* with cells, one of them with as many mines as cells, and a known mine.
C20_Witness ==
    /\ MineSet # {}
    /\ Cardinality({k \in DOMAIN knowledge : knowledge[k].cells # {}}) >= 3
    /\ \E k \in DOMAIN knowledge : knowledge[k].count >= 1

====
